---- MODULE Spec2Model ----
(***************************************************************************)
(* Foodgram backend: the relational tables of recipes/models.py and        *)
(* users/models.py and the request handlers of api/views.py and            *)
(* api/serializers.py that write them.                                     *)
(*                                                                         *)
(* A table is a bag of rows, so that a duplicated row is a state the model *)
(* can express and the uniqueness constraints of the schema are what keeps *)
(* it out.  No handler runs inside transaction.atomic, so every ORM        *)
(* statement commits on its own (Django's autocommit).                     *)
(***************************************************************************)
EXTENDS Integers, Sequences, FiniteSets, Bags, TLC

\* ---------------------------------------------------------------- bounds
NumUsers == 2
NumRecipes == 2
MaxAmount == 2
MaxListLen == 2
NumTags == 1
NumIngredients == 2
MaxCreated == 1
NumWorkers == 2

\* ------------------------------------------------------ status constants
HTTP_400_BAD_REQUEST == 400
HTTP_201_CREATED == 201
HTTP_204_NO_CONTENT == 204

\* ------------------------------------------------------------ identities
\* Registered users; request.user is one of them or the anonymous user (0).
Users == 1..NumUsers
Requesters == 0..NumUsers
\* Ids a URL can name: every registered user and one id that is no user's.
UserIds == 1..(NumUsers + 1)
\* Primary keys a URL can name: every recipe that can exist and one spare.
RecipeIds == 1..(NumRecipes + 1)
Tags == 1..NumTags
Amounts == 1..MaxAmount

\* The Ingredient table (read-only through the API): id -> name, unit.
\* (measurement_unit, name) is unique: flour/g, flour/kg, sugar/g, sugar/kg, ...
Ingredients == 1..NumIngredients
ingredient__name(i) ==
    IF (i - 1) \div 2 = 0 THEN "flour"
    ELSE IF (i - 1) \div 2 = 1 THEN "sugar" ELSE "salt"
ingredient__measurement_unit(i) == IF i % 2 = 1 THEN "g" ELSE "kg"

\* request.user.is_staff: the last registered user is the site's staff.
is_staff(user) == user = NumUsers

VARIABLES
    Recipe,             \* Recipe: id -> [author, cooking_time]
    RecipeIngredient,   \* bag of <<recipe, ingredient, amount>>
    RecipeTag,          \* bag of <<recipe, tag>>
    Favorite,           \* bag of <<user, recipe>>
    RecipeCart,         \* bag of <<user, recipe>>
    Subscriptions,      \* bag of <<author, user>>
    last,               \* the request handled last and its response
    inflight            \* worker -> the request it is in the middle of

vars == <<Recipe, RecipeIngredient, RecipeTag, Favorite, RecipeCart,
          Subscriptions, last, inflight>>

tables == <<Recipe, RecipeIngredient, RecipeTag, Favorite, RecipeCart,
            Subscriptions>>

\* The request handlers that can run at the same time, none busy yet.
Workers == 1..NumWorkers

Idle == [w \in Workers |-> [op |-> "idle", method |-> "none", user |-> 0, pk |-> 0]]

\* ------------------------------------------------------------- ORM layer
Row(r) == SetToBag({r})

\* queryset.filter(...).exists()
exists(table, row) == BagIn(row, table)

\* queryset.filter(...).delete(): every matching row goes.
delete(table, row) == [x \in (DOMAIN table) \ {row} |-> table[x]]

\* permission_classes = [IsAuthenticated]
IsAuthenticated(user) == user \in Users

\* get_object_or_404(Recipe, id=pk) / get_object_or_404(User, id=id)
RecipeFound(pk) == pk \in DOMAIN Recipe
UserFound(id) == id \in Users

\* A table without a uniqueness constraint.
no_unique_constraint(table, row) == TRUE

\* UniqueConstraint(fields=("user", "recipe")) of Favorite
unique_favorite_user_recipe(table, row) == ~BagIn(row, table)

\* UniqueConstraint(fields=("recipe", "user")) of RecipeCart
recipe_is_cart_alredy(table, row) == ~BagIn(row, table)

\* The constraint of the model add_to / the serializers write to.
ModelConstraint(model, table, row) ==
    IF model = "Favorite" THEN unique_favorite_user_recipe(table, row)
    ELSE recipe_is_cart_alredy(table, row)

\* What a handler hands back: the HTTP status and the table as it leaves it.
Result(status, table) == [status |-> status, table |-> table]

\* An IntegrityError nobody catches: the insert is refused, the answer is 500.
IntegrityError(table) == Result(500, table)

\* The request handled and the status it was answered with.  `keys` names
\* the fields a recipe write supplied, `shape` what was wrong with them and
\* `sent` the (ingredient, amount) pairs and the tags of a recipe write that
\* succeeded; `data` is a response body.
Reply(op, method, user, pk, status, keys, shape, sent, data) ==
    [op |-> op, method |-> method, user |-> user, pk |-> pk,
     status |-> status, keys |-> keys, shape |-> shape, sent |-> sent,
     data |-> data]

NoneSent == [ingredients |-> {}, tags |-> {}]

Response(op, method, user, pk, status) ==
    Reply(op, method, user, pk, status, {}, {}, NoneSent, {})

NoRequest == Response("none", "none", 0, 0, 0)

\* Model.objects.create(...): one INSERT, refused when it breaks a constraint.
objects_create(table, row, constraint_ok, status) ==
    IF constraint_ok THEN Result(status, table (+) Row(row))
    ELSE IntegrityError(table)

\* ------------------------------------- favorite / shopping-cart toggles
\* RecipesViewSet.add_to: the write after the existence check has passed.
add_to_create(model, table, user, pk) ==
    IF ~RecipeFound(pk) THEN Result(404, table)
    ELSE objects_create(table, <<user, pk>>,
                        ModelConstraint(model, table, <<user, pk>>),
                        HTTP_201_CREATED)

\* add_to without its existence check: the insert is tried in every case.
add_to_unchecked(model, table, user, pk) ==
    add_to_create(model, table, user, pk)

\* RecipesViewSet.add_to(model, user, pk)
add_to(model, table, user, pk) ==
    IF exists(table, <<user, pk>>) THEN Result(HTTP_400_BAD_REQUEST, table)
    ELSE add_to_create(model, table, user, pk)

\* delete_from that answers 204 whether or not a row was there.
delete_from_silent(model, table, user, pk) ==
    Result(HTTP_204_NO_CONTENT, delete(table, <<user, pk>>))

\* RecipesViewSet.delete_from(model, user, pk)
delete_from(model, table, user, pk) ==
    IF exists(table, <<user, pk>>)
    THEN Result(HTTP_204_NO_CONTENT, delete(table, <<user, pk>>))
    ELSE Result(HTTP_400_BAD_REQUEST, table)

\* FavoriteSerializer / RecipeCartSerializer .is_valid() on
\* {"user": request.user.id, "recipe": id}: both keys must name a row.
JoinSerializerValid(user, id) == UserFound(user) /\ RecipeFound(id)

\* serializer.save() of FavoriteSerializer / RecipeCartSerializer
serializer_save(model, table, user, id) ==
    objects_create(table, <<user, id>>,
                   ModelConstraint(model, table, <<user, id>>),
                   HTTP_201_CREATED)

\* FavoriteView.post(request, id)
FavoriteView_post(table, user, id) ==
    IF ~exists(table, <<user, id>>) /\ JoinSerializerValid(user, id)
    THEN serializer_save("Favorite", table, user, id)
    ELSE Result(HTTP_400_BAD_REQUEST, table)

\* FavoriteView.delete(request, id)
FavoriteView_delete(table, user, id) ==
    IF ~RecipeFound(id) THEN Result(404, table)
    ELSE IF exists(table, <<user, id>>)
    THEN Result(HTTP_204_NO_CONTENT, delete(table, <<user, id>>))
    ELSE Result(HTTP_400_BAD_REQUEST, table)

\* ShoppingCartView.post(request, id)
ShoppingCartView_post(table, user, id) ==
    IF ~RecipeFound(id) THEN Result(404, table)
    ELSE IF ~exists(table, <<user, id>>) /\ JoinSerializerValid(user, id)
    THEN serializer_save("RecipeCart", table, user, id)
    ELSE Result(HTTP_400_BAD_REQUEST, table)

\* ShoppingCartView.delete(request, id)
ShoppingCartView_delete(table, user, id) ==
    IF ~RecipeFound(id) THEN Result(404, table)
    ELSE IF exists(table, <<user, id>>)
    THEN Result(HTTP_204_NO_CONTENT, delete(table, <<user, id>>))
    ELSE Result(HTTP_400_BAD_REQUEST, table)

\* A view behind IsAuthenticated: an anonymous request is answered 401
\* before the handler runs.
Guarded(user, table, result) ==
    IF IsAuthenticated(user) THEN result ELSE Result(401, table)

Methods == {"POST", "DELETE"}

\* RecipesViewSet.favorite(request, pk)
favorite ==
    \E user \in Requesters, pk \in RecipeIds, method \in Methods :
        \E r \in {Guarded(user, Favorite,
                     IF method = "POST"
                     THEN add_to("Favorite", Favorite, user, pk)
                     ELSE delete_from("Favorite", Favorite, user, pk))} :
           /\ Favorite' = r.table
           /\ last' = Response("favorite", method, user, pk, r.status)
           /\ UNCHANGED <<Recipe, RecipeIngredient, RecipeTag, RecipeCart,
                          Subscriptions, inflight>>

\* RecipesViewSet.shopping_cart(request, pk)
shopping_cart ==
    \E user \in Requesters, pk \in RecipeIds, method \in Methods :
        \E r \in {Guarded(user, RecipeCart,
                     IF method = "POST"
                     THEN add_to("RecipeCart", RecipeCart, user, pk)
                     ELSE delete_from("RecipeCart", RecipeCart, user, pk))} :
           /\ RecipeCart' = r.table
           /\ last' = Response("shopping_cart", method, user, pk, r.status)
           /\ UNCHANGED <<Recipe, RecipeIngredient, RecipeTag, Favorite,
                          Subscriptions, inflight>>

\* FavoriteView: post and delete
FavoriteView ==
    \E user \in Requesters, id \in RecipeIds, method \in Methods :
        \E r \in {Guarded(user, Favorite,
                     IF method = "POST"
                     THEN FavoriteView_post(Favorite, user, id)
                     ELSE FavoriteView_delete(Favorite, user, id))} :
           /\ Favorite' = r.table
           /\ last' = Response("FavoriteView", method, user, id, r.status)
           /\ UNCHANGED <<Recipe, RecipeIngredient, RecipeTag, RecipeCart,
                          Subscriptions, inflight>>

\* ShoppingCartView: post and delete
ShoppingCartView ==
    \E user \in Requesters, id \in RecipeIds, method \in Methods :
        \E r \in {Guarded(user, RecipeCart,
                     IF method = "POST"
                     THEN ShoppingCartView_post(RecipeCart, user, id)
                     ELSE ShoppingCartView_delete(RecipeCart, user, id))} :
           /\ RecipeCart' = r.table
           /\ last' = Response("ShoppingCartView", method, user, id, r.status)
           /\ UNCHANGED <<Recipe, RecipeIngredient, RecipeTag, Favorite,
                          Subscriptions, inflight>>

\* ---------------------------------------------------------- subscriptions
\* UniqueConstraint(fields=("author", "user")) of Subscriptions
Repeat_subscription(table, row) == ~BagIn(row, table)

\* A schema without the check constraint.
No_check_constraint(row) == TRUE

\* CheckConstraint(check=~Q(author=F("user"))) of Subscriptions
No_self_sibscription(row) == row[1] # row[2]

\* The constraints an INSERT into Subscriptions has to meet.
SubscriptionsConstraints(table, row) ==
    Repeat_subscription(table, row) /\ No_self_sibscription(row)

\* SubscriptionSerializer(data={"user": .., "author": ..}).is_valid(): both
\* keys name a user and UniqueTogetherValidator finds no such pair stored.
\* `excluded` is the validator's exclusion of the serializer's own instance.
SubscriptionSerializer_is_valid(table, user, author, excluded) ==
    /\ UserFound(user)
    /\ UserFound(author)
    /\ (~exists(table, <<author, user>>) \/ excluded)

\* SubscribeView.post(request, id)
SubscribeView_post(table, user, id) ==
    IF SubscriptionSerializer_is_valid(table, user, id, FALSE)
    THEN objects_create(table, <<id, user>>,
                        SubscriptionsConstraints(table, <<id, user>>),
                        HTTP_201_CREATED)
    ELSE Result(HTTP_400_BAD_REQUEST, table)

\* SubscribeView.delete that answers 204 whether or not a row was there.
SubscribeView_delete_silent(table, user, id) ==
    IF ~UserFound(id) THEN Result(404, table)
    ELSE Result(HTTP_204_NO_CONTENT, delete(table, <<id, user>>))

\* SubscribeView.delete(request, id)
SubscribeView_delete(table, user, id) ==
    IF ~UserFound(id) THEN Result(404, table)
    ELSE IF exists(table, <<id, user>>)
    THEN Result(HTTP_204_NO_CONTENT, delete(table, <<id, user>>))
    ELSE Result(HTTP_400_BAD_REQUEST, table)

\* request.data of a POST to users/{id}/subscribe/: the "user" and "author"
\* keys the client sent, 0 for a key it left out.
Bodies == [user : 0..(NumUsers + 1), author : 0..(NumUsers + 1)]

\* The bodies that differ in what the serializer makes of them: no keys, or
\* a pair naming two users.
SomeBodies == {[user |-> 0, author |-> 0]} \cup [user : Users, author : Users]

\* CustomUserViewSet.subscribe, POST.  The serializer is built on the author
\* (a User) as its instance and on request.data: it validates the pair the
\* client sent, while the row written is (author of the URL, request.user).
\* serializer.data then renders the instance through to_representation,
\* which reads instance.author; a User has no such attribute, so the
\* response is a 500 raised after the INSERT has been committed.
subscribe_post(table, user, id, body, excluded) ==
    IF ~UserFound(id) THEN Result(404, table)
    ELSE IF ~SubscriptionSerializer_is_valid(table, body.user, body.author, excluded)
    THEN Result(HTTP_400_BAD_REQUEST, table)
    ELSE Result(500, objects_create(table, <<id, user>>,
                                    SubscriptionsConstraints(table, <<id, user>>),
                                    HTTP_201_CREATED).table)

\* CustomUserViewSet.subscribe, DELETE
subscribe_delete(table, user, id) ==
    IF ~UserFound(id) THEN Result(404, table)
    ELSE IF ~exists(table, <<id, user>>) THEN Result(404, table)
    ELSE Result(HTTP_204_NO_CONTENT, delete(table, <<id, user>>))

\* CustomUserViewSet.subscribe(request, id)
subscribe ==
    \E user \in Requesters, id \in UserIds, method \in Methods,
       body \in Bodies, excluded \in BOOLEAN :
        \E r \in {Guarded(user, Subscriptions,
                     IF method = "POST"
                     THEN subscribe_post(Subscriptions, user, id, body, excluded)
                     ELSE subscribe_delete(Subscriptions, user, id))} :
           /\ Subscriptions' = r.table
           /\ last' = Response("subscribe", method, user, id, r.status)
           /\ UNCHANGED <<Recipe, RecipeIngredient, RecipeTag, Favorite,
                          RecipeCart, inflight>>

\* SubscribeView: post and delete
SubscribeView ==
    \E user \in Requesters, id \in UserIds, method \in Methods :
        \E r \in {Guarded(user, Subscriptions,
                     IF method = "POST"
                     THEN SubscribeView_post(Subscriptions, user, id)
                     ELSE SubscribeView_delete(Subscriptions, user, id))} :
           /\ Subscriptions' = r.table
           /\ last' = Response("SubscribeView", method, user, id, r.status)
           /\ UNCHANGED <<Recipe, RecipeIngredient, RecipeTag, Favorite,
                          RecipeCart, inflight>>

\* ---------------------------------------------------------- recipe writes
\* A field of the payload: {} when the key is left out, {v} when it is v.
Optional(S) == {{}} \cup {{v} : v \in S}
Supplied(field) == field # {}
Value(field) == CHOOSE v \in field : TRUE

ListsOf(S) == UNION {[1..n -> S] : n \in 0..MaxListLen}

\* "ingredients": a list of {"id": .., "amount": ..}; "tags": a list of pks.
IngredientLists == ListsOf([id : Ingredients, amount : 0..MaxAmount])
TagLists == ListsOf(Tags)

\* "cooking_time": the values on both sides of the two validators' limits.
CookingTimes == {0, 1, 1000, 1001}

\* The lists and the cooking_time of a form that is filled in properly.
OneIngredient == <<[id |-> 1, amount |-> 1]>>
OneTag == <<1>>

\* The write payloads requests are drawn from.  Each field takes every one
\* of its values while the other two hold what a properly filled form
\* sends; the ingredient list also takes every value with the tags left out.
Payloads ==
    [ingredients : Optional(IngredientLists), tags : {{}, {OneTag}},
     cooking_time : {{1}}]
    \cup [ingredients : {{OneIngredient}}, tags : Optional(TagLists),
          cooking_time : {{1}}]
    \cup [ingredients : {{OneIngredient}}, tags : {{OneTag}},
          cooking_time : Optional(CookingTimes)]

\* The ingredient validation without validate_ingredients: amounts only.
validate_amounts_only(value) ==
    \A k \in DOMAIN value : value[k].amount >= 1

\* IngredientCreateInRecipeSerializer(many=True) and validate_ingredients:
\* every amount is at least 1 and the list has at least one entry.
validate_ingredients(value) ==
    /\ \A k \in DOMAIN value : value[k].amount >= 1
    /\ Len(value) >= 1

\* The serializer field ModelSerializer builds for Recipe.cooking_time: not
\* required, since the model field has a default, and bounded by the model
\* field's MinValueValidator(1) and MaxValueValidator(1000).
validate_cooking_time(cooking_time) ==
    Supplied(cooking_time) =>
        (Value(cooking_time) >= 1 /\ Value(cooking_time) <= 1000)

\* RecipeCreateUpdateSerializer.is_valid(): a required key may be left out
\* of a partial update only; the tag list may be empty.
RecipeSerializerValid(ingredients, tags, cooking_time, partial) ==
    /\ IF Supplied(ingredients) THEN validate_ingredients(Value(ingredients))
       ELSE partial
    /\ Supplied(tags) \/ partial
    /\ validate_cooking_time(cooking_time)

\* UniqueConstraint(fields=["recipe", "ingredient"]) over the stored rows
\* and the rows of one bulk INSERT.
recipe_ingredient_unique(table, recipe, ingredients) ==
    /\ \A j, k \in DOMAIN ingredients :
          j # k => ingredients[j].id # ingredients[k].id
    /\ \A k \in DOMAIN ingredients, row \in DOMAIN table :
          ~(row[1] = recipe /\ row[2] = ingredients[k].id)

\* The rows create / update build from the submitted list.
create_ingredients(recipe, ingredients) ==
    [k \in DOMAIN ingredients |->
        <<recipe, ingredients[k].id, ingredients[k].amount>>]

RECURSIVE BagOfSeq(_)
BagOfSeq(rows) ==
    IF rows = <<>> THEN EmptyBag ELSE Row(Head(rows)) (+) BagOfSeq(Tail(rows))

\* RecipeIngredient.objects.bulk_create(rows): one INSERT, all rows or none.
bulk_create(table, recipe, ingredients) ==
    IF recipe_ingredient_unique(table, recipe, ingredients)
    THEN Result(200, table (+) BagOfSeq(create_ingredients(recipe, ingredients)))
    ELSE IntegrityError(table)

\* instance.ingredients.clear(): every link of the recipe goes.
clear(table, recipe) ==
    [row \in {x \in DOMAIN table : x[1] # recipe} |-> table[row]]

\* create_tags that inserts nothing.
create_tags_none(table, tags, recipe) == Result(HTTP_201_CREATED, table)

\* create_tags: one RecipeTag INSERT per submitted tag, in order, each under
\* UniqueConstraint(fields=["recipe", "tag"]); the first refusal ends it.
RECURSIVE create_tags(_, _, _)
create_tags(table, tags, recipe) ==
    IF tags = <<>> THEN Result(HTTP_201_CREATED, table)
    ELSE IF BagIn(<<recipe, Head(tags)>>, table) THEN IntegrityError(table)
    ELSE create_tags(table (+) Row(<<recipe, Head(tags)>>), Tail(tags), recipe)

\* instance.tags.set(tags): the recipe's tag links become the submitted set.
tags_set(table, recipe, tags) ==
    clear(table, recipe) (+) SetToBag({<<recipe, tags[k]>> : k \in DOMAIN tags})

\* What a recipe write hands back: the status and the three tables.
Written(status, recipe, links, tagged) ==
    [status |-> status, Recipe |-> recipe, RecipeIngredient |-> links,
     RecipeTag |-> tagged]

Refused(status) == Written(status, Recipe, RecipeIngredient, RecipeTag)

\* The primary key the next Recipe INSERT gets.
NextRecipeId == Cardinality(DOMAIN Recipe) + 1

\* Recipe.objects.create(author=author, **validated_data): a cooking_time
\* that was left out is stored as the model field's default=0.
Recipe_objects_create(author, cooking_time) ==
    [author |-> author,
     cooking_time |-> IF Supplied(cooking_time) THEN Value(cooking_time) ELSE 0]

\* RecipeCreateUpdateSerializer.create behind ModelViewSet.create.
\* has_permission lets everybody in; Recipe.objects.create refuses an
\* anonymous author with a ValueError (500).
serializer_create(user, ingredients, tags, cooking_time) ==
    IF ~RecipeSerializerValid(ingredients, tags, cooking_time, FALSE)
    THEN Refused(HTTP_400_BAD_REQUEST)
    ELSE IF user \notin Users THEN Refused(500)
    ELSE LET pk == NextRecipeId
             stored == (pk :> Recipe_objects_create(user, cooking_time)) @@ Recipe
             links == bulk_create(RecipeIngredient, pk, Value(ingredients))
             tagged == create_tags(RecipeTag, Value(tags), pk)
         IN IF links.status = 500
            THEN Written(500, stored, RecipeIngredient, RecipeTag)
            ELSE Written(tagged.status, stored, links.table, tagged.table)

\* A permission class that lets every request through.
AllowAny(safe, user, obj) == TRUE

\* IsAuthorOrAdminOrReadOnly.has_object_permission
has_object_permission(safe, user, obj) ==
    safe \/ obj.author = user \/ is_staff(user)

\* ModelSerializer.update: setattr for the plain fields supplied, save().
instance_save(pk, cooking_time) ==
    IF Supplied(cooking_time)
    THEN [Recipe EXCEPT ![pk].cooking_time = Value(cooking_time)]
    ELSE Recipe

\* update that keeps the old links and adds the submitted ones to them.
serializer_update_merge(pk, ingredients, tags, cooking_time) ==
    LET links == IF Supplied(ingredients)
                 THEN bulk_create(RecipeIngredient, pk, Value(ingredients))
                 ELSE Result(200, RecipeIngredient)
        tagged == IF Supplied(tags) THEN tags_set(RecipeTag, pk, Value(tags))
                  ELSE RecipeTag
    IN IF links.status = 500 THEN Written(500, Recipe, links.table, RecipeTag)
       ELSE Written(200, instance_save(pk, cooking_time), links.table, tagged)

\* RecipeCreateUpdateSerializer.update: clear() and bulk_create when a list
\* was supplied, then ModelSerializer.update, which saves the instance and
\* sets the tags.
serializer_update(pk, ingredients, tags, cooking_time) ==
    LET cleared == clear(RecipeIngredient, pk)
        links == IF Supplied(ingredients)
                 THEN bulk_create(cleared, pk, Value(ingredients))
                 ELSE Result(200, RecipeIngredient)
        tagged == IF Supplied(tags) THEN tags_set(RecipeTag, pk, Value(tags))
                  ELSE RecipeTag
    IN IF links.status = 500 THEN Written(500, Recipe, links.table, RecipeTag)
       ELSE Written(200, instance_save(pk, cooking_time), links.table, tagged)

\* APIView.permission_denied: 401 for a request that carries no credentials,
\* 403 for a user who is not allowed.
permission_denied(user) == IF user \in Users THEN 403 ELSE 401

\* ModelViewSet.update / partial_update on RecipesViewSet
view_update(user, pk, method, ingredients, tags, cooking_time) ==
    IF ~RecipeFound(pk) THEN Refused(404)
    ELSE IF ~has_object_permission(FALSE, user, Recipe[pk])
    THEN Refused(permission_denied(user))
    ELSE IF ~RecipeSerializerValid(ingredients, tags, cooking_time,
                                   method = "PATCH")
    THEN Refused(HTTP_400_BAD_REQUEST)
    ELSE serializer_update(pk, ingredients, tags, cooking_time)

\* The fields a payload supplied, noted when the write succeeded.
PayloadKeys(status, payload) ==
    IF status \in 200..299
    THEN {key \in {"ingredients", "tags", "cooking_time"} :
              Supplied(payload[key])}
    ELSE {}

\* What the payload of a write looked like, noted with the response: an
\* ingredient list without entries, an entry whose amount is below 1, a tag
\* list without entries, a cooking_time below 1 or above 1000.
Shape(payload) ==
    (IF Supplied(payload.ingredients) /\ Value(payload.ingredients) = <<>>
     THEN {"ingredients=[]"} ELSE {})
    \cup (IF Supplied(payload.ingredients)
             /\ \E k \in DOMAIN Value(payload.ingredients) :
                   Value(payload.ingredients)[k].amount < 1
          THEN {"amount<1"} ELSE {})
    \cup (IF Supplied(payload.tags) /\ Value(payload.tags) = <<>>
          THEN {"tags=[]"} ELSE {})
    \cup (IF Supplied(payload.cooking_time) /\ Value(payload.cooking_time) < 1
          THEN {"cooking_time<1"} ELSE {})
    \cup (IF Supplied(payload.cooking_time) /\ Value(payload.cooking_time) > 1000
          THEN {"cooking_time>1000"} ELSE {})

\* The (ingredient, amount) pairs and the tags of a payload, noted when the
\* write succeeded.
Sent(status, payload) ==
    IF status \in 200..299
    THEN [ingredients |->
              IF Supplied(payload.ingredients)
              THEN {<<Value(payload.ingredients)[k].id,
                      Value(payload.ingredients)[k].amount>> :
                        k \in DOMAIN Value(payload.ingredients)}
              ELSE {},
          tags |-> IF Supplied(payload.tags)
                   THEN {Value(payload.tags)[k] : k \in DOMAIN Value(payload.tags)}
                   ELSE {}]
    ELSE NoneSent

\* One POST /recipes/ request.
create_request(user, payload) ==
    /\ Cardinality(DOMAIN Recipe) < MaxCreated
    /\ \E r \in {serializer_create(user, payload.ingredients, payload.tags,
                                   payload.cooking_time)} :
          /\ Recipe' = r.Recipe
          /\ RecipeIngredient' = r.RecipeIngredient
          /\ RecipeTag' = r.RecipeTag
          /\ last' = Reply("create", "POST", user,
                           IF r.Recipe = Recipe THEN 0 ELSE NextRecipeId,
                           r.status, PayloadKeys(r.status, payload), Shape(payload),
                           Sent(r.status, payload), {})
    /\ UNCHANGED <<Favorite, RecipeCart, Subscriptions, inflight>>

\* One PUT or PATCH /recipes/{pk}/ request.
update_request(user, pk, method, payload) ==
    /\ \E r \in {view_update(user, pk, method, payload.ingredients,
                             payload.tags, payload.cooking_time)} :
          /\ Recipe' = r.Recipe
          /\ RecipeIngredient' = r.RecipeIngredient
          /\ RecipeTag' = r.RecipeTag
          /\ last' = Reply("update", method, user, pk, r.status,
                           PayloadKeys(r.status, payload), Shape(payload),
                           Sent(r.status, payload), {})
    /\ UNCHANGED <<Favorite, RecipeCart, Subscriptions, inflight>>

\* RecipesViewSet.create
create ==
    \E user \in Requesters, payload \in Payloads :
        create_request(user, payload)

\* RecipesViewSet.update and partial_update
update ==
    \E user \in Requesters, pk \in 1..(MaxCreated + 1), method \in {"PUT", "PATCH"},
       payload \in Payloads :
        update_request(user, pk, method, payload)

\* on_delete=models.CASCADE: the rows of a join table that point at a recipe
\* go with it (`at` is the position of the recipe key in the row).
cascade(table, at, recipe) ==
    [row \in {x \in DOMAIN table : x[at] # recipe} |-> table[row]]

\* RecipesViewSet.destroy: DELETE /recipes/{pk}/
destroy ==
    \E user \in Requesters, pk \in 1..(MaxCreated + 1) :
        \E status \in {IF ~RecipeFound(pk) THEN 404
                       ELSE IF ~has_object_permission(FALSE, user, Recipe[pk])
                       THEN permission_denied(user)
                       ELSE HTTP_204_NO_CONTENT} :
           /\ IF status = HTTP_204_NO_CONTENT
              THEN /\ Recipe' = [r \in (DOMAIN Recipe) \ {pk} |-> Recipe[r]]
                   /\ RecipeIngredient' = cascade(RecipeIngredient, 1, pk)
                   /\ RecipeTag' = cascade(RecipeTag, 1, pk)
                   /\ Favorite' = cascade(Favorite, 2, pk)
                   /\ RecipeCart' = cascade(RecipeCart, 2, pk)
              ELSE UNCHANGED <<Recipe, RecipeIngredient, RecipeTag, Favorite,
                               RecipeCart>>
           /\ last' = Response("destroy", "DELETE", user, pk, status)
           /\ UNCHANGED <<Subscriptions, inflight>>

\* ----------------------------------------------------------- recipe reads
\* get_is_favorited that looks for a Favorite row of any user.
get_is_favorited_by_anyone(user, recipe) ==
    \E row \in DOMAIN Favorite : row[2] = recipe

\* RecipeListSerializer.get_is_favorited
get_is_favorited(user, recipe) ==
    IF user \notin Users THEN FALSE
    ELSE exists(Favorite, <<user, recipe>>)

\* RecipeListSerializer.get_is_in_shopping_cart
get_is_in_shopping_cart(user, recipe) ==
    IF user \notin Users THEN FALSE
    ELSE exists(RecipeCart, <<user, recipe>>)

\* RecipeListSerializer(recipe).data, the fields the tables above decide.
to_representation(user, recipe) ==
    [id |-> recipe,
     author |-> Recipe[recipe].author,
     is_favorited |-> get_is_favorited(user, recipe),
     is_in_shopping_cart |-> get_is_in_shopping_cart(user, recipe),
     cooking_time |-> Recipe[recipe].cooking_time]

\* RecipesViewSet.retrieve: GET /recipes/{pk}/
retrieve ==
    \E user \in Requesters, pk \in RecipeIds :
        /\ last' = IF ~RecipeFound(pk)
                   THEN Response("retrieve", "GET", user, pk, 404)
                   ELSE IF ~has_object_permission(TRUE, user, Recipe[pk])
                   THEN Response("retrieve", "GET", user, pk,
                                 permission_denied(user))
                   ELSE Reply("retrieve", "GET", user, pk, 200, {}, {},
                              NoneSent, to_representation(user, pk))
        /\ UNCHANGED <<Recipe, RecipeIngredient, RecipeTag, Favorite,
                       RecipeCart, Subscriptions, inflight>>

\* --------------------------------------------------- shopping-list export
\* user.shopping_cart.exists()
shopping_cart_exists(user) ==
    \E row \in DOMAIN RecipeCart : row[1] = user

\* The cart join that counts the rows of every user's cart.
cart_rows_of_anyone(user, recipe) ==
    LET others == {row \in DOMAIN RecipeCart : row[2] = recipe}
    IN IF others = {} THEN 0 ELSE RecipeCart[CHOOSE row \in others : TRUE]

\* recipe__shopping_cart__user=user: how many RecipeCart rows the inner join
\* pairs with one RecipeIngredient row of `recipe`.
recipe__shopping_cart__user(user, recipe) ==
    CopiesIn(<<user, recipe>>, RecipeCart)

\* .values("ingredient__name", "ingredient__measurement_unit"): the key the
\* rows are grouped by.
values(link) ==
    <<ingredient__name(link[2]), ingredient__measurement_unit(link[2])>>

\* Sum("amount") over the joined rows of the RecipeIngredient rows `links`.
RECURSIVE Sum(_, _)
Sum(user, links) ==
    IF links = {} THEN 0
    ELSE LET link == CHOOSE x \in links : TRUE
         IN link[3] * RecipeIngredient[link]
                    * recipe__shopping_cart__user(user, link[1])
            + Sum(user, links \ {link})

\* The annotated queryset: one <<name, unit, amount>> per group.
annotate(user) ==
    LET joined == {link \in DOMAIN RecipeIngredient :
                       recipe__shopping_cart__user(user, link[1]) > 0}
    IN {<<key[1], key[2],
          Sum(user, {link \in joined : values(link) = key})>> :
            key \in {values(link) : link \in joined}}

\* download_shopping_cart that tests the whole RecipeCart table for rows.
download_any_cart(user) ==
    IF RecipeCart = EmptyBag
    THEN [status |-> HTTP_400_BAD_REQUEST, data |-> {}]
    ELSE [status |-> 200, data |-> annotate(user)]

\* RecipesViewSet.download_shopping_cart(request): the status and the lines
\* of the text attachment, "- name (unit) - amount" each.
shopping_list(user) ==
    IF ~shopping_cart_exists(user)
    THEN [status |-> HTTP_400_BAD_REQUEST, data |-> {}]
    ELSE [status |-> 200, data |-> annotate(user)]

download_shopping_cart ==
    \E user \in Requesters :
        \E r \in {IF IsAuthenticated(user) THEN shopping_list(user)
                  ELSE [status |-> 401, data |-> {}]} :
           /\ last' = Reply("download_shopping_cart", "GET", user, 0,
                            r.status, {}, {}, NoneSent, r.data)
           /\ UNCHANGED <<Recipe, RecipeIngredient, RecipeTag, Favorite,
                          RecipeCart, Subscriptions, inflight>>

\* ------------------------------------------------- concurrent requests
\* Each handler runs one ORM statement after another with nothing holding
\* the rows in between, so another request can run between the queries a
\* handler decides on and the INSERT or DELETE it then issues.
FavoriteOps == {"favorite", "FavoriteView"}
CartOps == {"shopping_cart", "ShoppingCartView"}
SubscribeOps == {"subscribe", "SubscribeView"}

\* The join table an endpoint works on, its model and the row of a request.
TableOf(op) ==
    IF op \in FavoriteOps THEN Favorite
    ELSE IF op \in CartOps THEN RecipeCart ELSE Subscriptions
ModelOf(op) == IF op \in FavoriteOps THEN "Favorite" ELSE "RecipeCart"
RowOf(op, user, pk) == IF op \in SubscribeOps THEN <<pk, user>> ELSE <<user, pk>>

\* The queries of a handler let it go on to its write.
queries_pass(op, method, table, user, pk, body, excluded) ==
    LET stored == exists(table, RowOf(op, user, pk)) IN
    IF method = "POST"
    THEN CASE op \in {"favorite", "shopping_cart"} -> ~stored
           [] op = "FavoriteView" -> ~stored /\ JoinSerializerValid(user, pk)
           [] op = "ShoppingCartView" ->
                RecipeFound(pk) /\ ~stored /\ JoinSerializerValid(user, pk)
           [] op = "subscribe" ->
                /\ UserFound(pk)
                /\ SubscriptionSerializer_is_valid(table, body.user,
                                                   body.author, excluded)
           [] op = "SubscribeView" ->
                SubscriptionSerializer_is_valid(table, user, pk, FALSE)
    ELSE CASE op \in {"favorite", "shopping_cart"} -> stored
           [] op \in {"FavoriteView", "ShoppingCartView"} ->
                RecipeFound(pk) /\ stored
           [] op \in SubscribeOps -> UserFound(pk) /\ stored

\* The write a handler issues once its queries have passed, against the
\* table as it is by then.
write(op, method, table, user, pk) ==
    LET row == RowOf(op, user, pk) IN
    IF method = "POST"
    THEN CASE op \in {"favorite", "shopping_cart"} ->
                add_to_create(ModelOf(op), table, user, pk)
           [] op \in {"FavoriteView", "ShoppingCartView"} ->
                serializer_save(ModelOf(op), table, user, pk)
           [] op = "subscribe" ->
                Result(500, objects_create(table, row,
                                SubscriptionsConstraints(table, row),
                                HTTP_201_CREATED).table)
           [] op = "SubscribeView" ->
                objects_create(table, row,
                               SubscriptionsConstraints(table, row),
                               HTTP_201_CREATED)
    ELSE IF op = "SubscribeView" /\ ~exists(table, row)
         THEN Result(404, table)
         ELSE Result(HTTP_204_NO_CONTENT, delete(table, row))

\* The worker that takes the next request: the first one that is free.
FreeWorker == CHOOSE w \in Workers :
    /\ inflight[w].op = "idle"
    /\ \A v \in Workers : inflight[v].op = "idle" => w <= v

\* A request arrives and its handler runs its queries; it goes on to its
\* write later.  (A request the queries turn down is answered at once and
\* changes nothing.)
Begin ==
    /\ \E w \in Workers : inflight[w].op = "idle"
    /\ \E op \in FavoriteOps \cup CartOps \cup SubscribeOps, method \in Methods,
          user \in Users :
       \E pk \in (IF op \in SubscribeOps THEN UserIds ELSE RecipeIds),
          body \in SomeBodies, excluded \in BOOLEAN :
          /\ queries_pass(op, method, TableOf(op), user, pk, body, excluded)
          /\ inflight' = [inflight EXCEPT ![FreeWorker] =
                 [op |-> op, method |-> method, user |-> user, pk |-> pk]]
    /\ UNCHANGED <<Recipe, RecipeIngredient, RecipeTag, Favorite, RecipeCart,
                   Subscriptions, last>>

\* A handler issues its write and answers (the answers of interleaved
\* requests are not kept in `last`).
Finish ==
    \E w \in Workers :
        /\ inflight[w].op # "idle"
        /\ \E r \in {write(inflight[w].op, inflight[w].method,
                           TableOf(inflight[w].op), inflight[w].user,
                           inflight[w].pk)} :
              /\ Favorite' = IF inflight[w].op \in FavoriteOps THEN r.table
                             ELSE Favorite
              /\ RecipeCart' = IF inflight[w].op \in CartOps THEN r.table
                               ELSE RecipeCart
              /\ Subscriptions' = IF inflight[w].op \in SubscribeOps THEN r.table
                                  ELSE Subscriptions
        /\ inflight' = [inflight EXCEPT ![w] = Idle[w]]
        /\ UNCHANGED <<Recipe, RecipeIngredient, RecipeTag, last>>

\* ---------------------------------------------- concurrent recipe updates
\* RecipeCreateUpdateSerializer.update from its bulk_create on, against the
\* links as they are by then: the INSERT, then ModelSerializer.update.
update_after_clear(pk, ingredients, tags, cooking_time) ==
    LET links == bulk_create(RecipeIngredient, pk, ingredients)
        tagged == IF Supplied(tags) THEN tags_set(RecipeTag, pk, Value(tags))
                  ELSE RecipeTag
    IN IF links.status = 500 THEN Written(500, Recipe, links.table, RecipeTag)
       ELSE Written(200, instance_save(pk, cooking_time), links.table, tagged)

\* An update that supplies an ingredient list arrives; it passes get_object,
\* the permission check and validation and its handler runs
\* instance.ingredients.clear().  (An update that is turned down before
\* that, or supplies no ingredient list, has no step to interleave.)
update_clear ==
    /\ \E w \in Workers : inflight[w].op = "idle"
    /\ \E user \in Users, pk \in 1..(MaxCreated + 1), method \in {"PUT", "PATCH"},
          payload \in Payloads :
          /\ RecipeFound(pk)
          /\ has_object_permission(FALSE, user, Recipe[pk])
          /\ RecipeSerializerValid(payload.ingredients, payload.tags,
                                   payload.cooking_time, method = "PATCH")
          /\ Supplied(payload.ingredients)
          /\ RecipeIngredient' = clear(RecipeIngredient, pk)
          /\ inflight' = [inflight EXCEPT ![FreeWorker] =
                 [op |-> "update", method |-> method, user |-> user, pk |-> pk,
                  ingredients |-> Value(payload.ingredients),
                  tags |-> payload.tags, cooking_time |-> payload.cooking_time,
                  status |-> 0]]
    /\ UNCHANGED <<Recipe, RecipeTag, Favorite, RecipeCart, Subscriptions, last>>

\* The handler of an update in flight issues its bulk_create and goes on to
\* ModelSerializer.update if the INSERT went through; the request is
\* answered and stays on record with its status.
update_bulk_create ==
    \E w \in Workers :
        /\ inflight[w].op = "update"
        /\ \E r \in {update_after_clear(inflight[w].pk, inflight[w].ingredients,
                                        inflight[w].tags,
                                        inflight[w].cooking_time)} :
              /\ Recipe' = r.Recipe
              /\ RecipeIngredient' = r.RecipeIngredient
              /\ RecipeTag' = r.RecipeTag
              /\ inflight' = [inflight EXCEPT ![w].op = "answered",
                                              ![w].status = r.status]
        /\ UNCHANGED <<Favorite, RecipeCart, Subscriptions, last>>

\* ------------------------------------------------------- initial states
\* The author of the recipe stored with primary key r.
SeedAuthor(r) == ((r - 1) % NumUsers) + 1

\* A database that holds NumRecipes published recipes, each with one
\* ingredient link and one tag link, and no favorite, cart entry or
\* subscription yet.
InitStocked ==
    /\ Recipe = [r \in 1..NumRecipes |-> [author |-> SeedAuthor(r), cooking_time |-> 1]]
    /\ RecipeIngredient = SetToBag({<<r, 1, 1>> : r \in 1..NumRecipes})
    /\ RecipeTag = SetToBag({<<r, 1>> : r \in 1..NumRecipes})
    /\ Favorite = EmptyBag
    /\ RecipeCart = EmptyBag
    /\ Subscriptions = EmptyBag
    /\ last = NoRequest
    /\ inflight = Idle

\* A database with users, ingredients and tags but no recipe yet.
InitEmpty ==
    /\ Recipe = <<>>
    /\ RecipeIngredient = EmptyBag
    /\ RecipeTag = EmptyBag
    /\ Favorite = EmptyBag
    /\ RecipeCart = EmptyBag
    /\ Subscriptions = EmptyBag
    /\ last = NoRequest
    /\ inflight = Idle

\* A database that holds NumRecipes recipes with any ingredient links the
\* (recipe, ingredient) constraint allows (amount 0 stands for no link),
\* as recipe creates and updates leave them.
InitCart ==
    /\ Recipe = [r \in 1..NumRecipes |-> [author |-> SeedAuthor(r), cooking_time |-> 1]]
    /\ \E amount \in [(1..NumRecipes) \X Ingredients -> 0..MaxAmount] :
          RecipeIngredient =
              SetToBag({<<ri[1], ri[2], amount[ri]>> :
                            ri \in {x \in DOMAIN amount : amount[x] > 0}})
    /\ RecipeTag = SetToBag({<<r, 1>> : r \in 1..NumRecipes})
    /\ Favorite = EmptyBag
    /\ RecipeCart = EmptyBag
    /\ Subscriptions = EmptyBag
    /\ last = NoRequest
    /\ inflight = Idle

\* A database that holds one published recipe and no favorite, cart entry
\* or subscription yet.
InitConc ==
    /\ Recipe = (1 :> [author |-> 1, cooking_time |-> 1])
    /\ RecipeIngredient = Row(<<1, 1, 1>>)
    /\ RecipeTag = Row(<<1, 1>>)
    /\ Favorite = EmptyBag
    /\ RecipeCart = EmptyBag
    /\ Subscriptions = EmptyBag
    /\ last = NoRequest
    /\ inflight = Idle

\* A database that holds one published recipe, written by any of the users.
InitOwned ==
    /\ \E author \in Users :
          Recipe = (1 :> [author |-> author, cooking_time |-> 1])
    /\ RecipeIngredient = Row(<<1, 1, 1>>)
    /\ RecipeTag = Row(<<1, 1>>)
    /\ Favorite = EmptyBag
    /\ RecipeCart = EmptyBag
    /\ Subscriptions = EmptyBag
    /\ last = NoRequest
    /\ inflight = Idle

\* ------------------------------------------- favorites and shopping cart
NextToggle == favorite \/ shopping_cart \/ FavoriteView \/ ShoppingCartView

SpecToggle == InitStocked /\ [][NextToggle]_vars

\* ---------------------------------------------------------------- C2, C3

\* The step just taken handled `method` on a favorite or cart endpoint for
\* an authenticated user.
ToggleStep(method) ==
    /\ last'.method = method
    /\ last'.op \in FavoriteOps \cup CartOps
    /\ last'.user \in Users

\* The join table the step's endpoint works on, before and after the step,
\* and everything else the database holds.
ToggleBefore == IF last'.op \in FavoriteOps THEN Favorite ELSE RecipeCart
ToggleAfter == IF last'.op \in FavoriteOps THEN Favorite' ELSE RecipeCart'
ToggleRest ==
    /\ UNCHANGED <<Recipe, RecipeIngredient, RecipeTag, Subscriptions>>
    /\ IF last'.op \in FavoriteOps THEN UNCHANGED RecipeCart
       ELSE UNCHANGED Favorite

\* C2: POST favorite / shopping_cart by an authenticated user on an existing
\* recipe: if the (user, recipe) row is already there the answer is 400 and
\* the table is unchanged; otherwise the answer is 201 and the table gains
\* exactly that one row.  No other table changes in either case.
C2_AddConflictOrInsert ==
    [][ (ToggleStep("POST") /\ last'.pk \in DOMAIN Recipe) =>
          LET row == <<last'.user, last'.pk>> IN
          /\ ToggleRest
          /\ IF BagIn(row, ToggleBefore)
             THEN last'.status = 400 /\ ToggleAfter = ToggleBefore
             ELSE last'.status = 201 /\ ToggleAfter = ToggleBefore (+) SetToBag({row})
      ]_vars

\* A POST for a pair that is already stored has been answered 400, with
\* another user's row in the same table.
C2_Witness ==
    /\ last.method = "POST" /\ last.op = "shopping_cart" /\ last.status = 400
    /\ BagIn(<<last.user, last.pk>>, RecipeCart)
    /\ \E u \in Users \ {last.user} : BagIn(<<u, last.pk>>, RecipeCart)

\* C3: DELETE favorite / shopping_cart by an authenticated user: if the
\* (user, recipe) row is absent the answer is a 4xx failure and no table
\* changes; if it is there the answer is 204 and exactly that row is gone.
C3_RemoveMissingOrDelete ==
    [][ ToggleStep("DELETE") =>
          LET row == <<last'.user, last'.pk>> IN
          /\ ToggleRest
          /\ IF BagIn(row, ToggleBefore)
             THEN /\ last'.status = 204
                  /\ ToggleAfter = [x \in (DOMAIN ToggleBefore) \ {row} |-> ToggleBefore[x]]
             ELSE /\ last'.status \in 400..499
                  /\ ToggleAfter = ToggleBefore
      ]_vars

\* A DELETE for a pair that is not stored has been answered 400 while the
\* table holds other rows.
C3_Witness ==
    /\ last.method = "DELETE" /\ last.op = "favorite" /\ last.status = 400
    /\ ~BagIn(<<last.user, last.pk>>, Favorite)
    /\ Favorite # EmptyBag

\* ---------------------------------------------------------- subscriptions
NextSubscribe == subscribe \/ SubscribeView

SpecSubscribe == InitStocked /\ [][NextSubscribe]_vars

\* The step just taken handled `method` on a subscribe endpoint for an
\* authenticated user.
SubscribeStep(method) ==
    /\ last'.method = method
    /\ last'.op \in SubscribeOps
    /\ last'.user \in Users

\* C4: no Subscriptions row ever has author = user, and a subscribe POST
\* whose author id is the requester's own id is never answered with a 2xx
\* status and leaves the Subscriptions table unchanged.
C4_NoSelfSubscription ==
    /\ [](\A row \in DOMAIN Subscriptions : row[1] # row[2])
    /\ [][ (SubscribeStep("POST") /\ last'.pk = last'.user) =>
             /\ last'.status \notin 200..299
             /\ UNCHANGED Subscriptions ]_vars

\* A self-subscription that passed validation has been refused by the
\* database while the requester follows somebody else.
C4_Witness ==
    /\ last.op = "SubscribeView" /\ last.method = "POST"
    /\ last.pk = last.user /\ last.status = 500
    /\ \E a \in Users : BagIn(<<a, last.user>>, Subscriptions)

\* C5 as claimed: a subscribe POST by an authenticated user for another,
\* existing user fails and changes nothing if the (author, user) row is
\* stored, and otherwise is answered 201 and adds exactly that row.
C5_SubscribeInsertsOrFails ==
    [][ (SubscribeStep("POST") /\ last'.pk \in Users /\ last'.pk # last'.user) =>
          LET row == <<last'.pk, last'.user>> IN
          IF BagIn(row, Subscriptions)
          THEN last'.status \notin 200..299 /\ UNCHANGED Subscriptions
          ELSE /\ last'.status = 201
               /\ Subscriptions' = Subscriptions (+) SetToBag({row})
      ]_vars

\* C6: a subscribe DELETE by an authenticated user: if the (author, user)
\* row is stored the answer is 204 and exactly that row is gone; if not, the
\* answer is a 4xx failure and the Subscriptions table is unchanged.
C6_UnsubscribeDeletesOrFails ==
    [][ SubscribeStep("DELETE") =>
          LET row == <<last'.pk, last'.user>> IN
          IF BagIn(row, Subscriptions)
          THEN /\ last'.status = 204
               /\ Subscriptions' =
                    [x \in (DOMAIN Subscriptions) \ {row} |-> Subscriptions[x]]
          ELSE /\ last'.status \in 400..499
               /\ UNCHANGED Subscriptions
      ]_vars

\* An unsubscribe from an author the requester does not follow has been
\* answered 400 while the table holds another subscription.
C6_Witness ==
    /\ last.op = "SubscribeView" /\ last.method = "DELETE"
    /\ last.status = 400 /\ last.pk \in Users
    /\ ~BagIn(<<last.pk, last.user>>, Subscriptions)
    /\ Subscriptions # EmptyBag

\* ------------------------------------------------------- unknown ids
NextMissing == favorite \/ shopping_cart \/ subscribe

SpecMissing == InitConc /\ [][NextMissing]_vars

\* The step just taken handled a favorite or shopping_cart request that
\* names no stored recipe, or a subscribe request that names no user, for an
\* authenticated user.
MissingId ==
    /\ last'.user \in Users
    /\ \/ last'.op \in {"favorite", "shopping_cart"} /\ last'.pk \notin DOMAIN Recipe
       \/ last'.op = "subscribe" /\ last'.pk \notin Users

\* C17 as claimed: a favorite, shopping_cart or subscribe request that names
\* a recipe or user that does not exist is answered 404 and inserts or
\* deletes no row.
C17_MissingIdAnswered404 ==
    [][ MissingId => (last'.status = 404 /\ UNCHANGED tables) ]_vars

\* ---------------------------------------------------------- recipe writes
NextRecipe == create \/ update

SpecRecipe == InitEmpty /\ [][NextRecipe]_vars

\* The (ingredient, amount) links stored for a recipe, as a bag.
LinksOf(table, recipe) ==
    [row \in {x \in DOMAIN table : x[1] = recipe} |-> table[row]]

\* C7: after a successful update that supplied an ingredient list, the
\* recipe's links are exactly the submitted (ingredient, amount) pairs, one
\* row each: nothing of the old links is left and nothing submitted is
\* missing.
C7_UpdateReplacesIngredients ==
    (last.op = "update" /\ last.status = 200 /\ "ingredients" \in last.keys) =>
        LinksOf(RecipeIngredient, last.pk) =
            SetToBag({<<last.pk, p[1], p[2]>> : p \in last.sent.ingredients})

\* A successful update with an ingredient list has left the recipe with
\* two links.
C7_Witness ==
    /\ last.op = "update" /\ last.status = 200 /\ "ingredients" \in last.keys
    /\ Cardinality(DOMAIN LinksOf(RecipeIngredient, last.pk)) = 2

\* C8 as claimed: a recipe create or update that fails leaves the stored
\* recipes and their ingredient and tag links exactly as they were.
C8_FailedWriteChangesNothing ==
    [][ (last'.op \in {"create", "update"} /\ last'.status \notin 200..299) =>
          UNCHANGED <<Recipe, RecipeIngredient, RecipeTag>>
      ]_vars

\* The step just taken handled a recipe create or update.
RecipeWrite == last'.op \in {"create", "update"}

\* C12 as claimed: a create or update whose cooking_time is below 1 or above
\* 1000 is rejected and changes no stored recipe, and every stored recipe
\* has a cooking_time from 1 to 1000.
C12_CookingTimeInRange ==
    /\ [](\A r \in DOMAIN Recipe :
             Recipe[r].cooking_time >= 1 /\ Recipe[r].cooking_time <= 1000)
    /\ [][ (RecipeWrite
              /\ last'.shape \cap {"cooking_time<1", "cooking_time>1000"} # {}) =>
             /\ last'.status \notin 200..299
             /\ UNCHANGED <<Recipe, RecipeIngredient, RecipeTag>> ]_vars

\* C14: a create answered with success has stored one new recipe whose
\* author is the authenticated requester, one ingredient link per submitted
\* ingredient carrying the submitted amount, and one tag link per submitted
\* tag; a create sent without credentials stores nothing.
C14_CreateStoresRecipeAndLinks ==
    /\ []((last.op = "create" /\ last.status \in 200..299) =>
             /\ last.user \in Users
             /\ last.pk \in DOMAIN Recipe
             /\ Recipe[last.pk].author = last.user
             /\ LinksOf(RecipeIngredient, last.pk) =
                   SetToBag({<<last.pk, p[1], p[2]>> : p \in last.sent.ingredients})
             /\ LinksOf(RecipeTag, last.pk) =
                   SetToBag({<<last.pk, t>> : t \in last.sent.tags}))
    /\ [][ (last'.op = "create" /\ last'.status \in 200..299) =>
             /\ last'.pk \notin DOMAIN Recipe
             /\ DOMAIN Recipe' = DOMAIN Recipe \cup {last'.pk}
             /\ \A r \in DOMAIN Recipe :
                   /\ Recipe'[r] = Recipe[r]
                   /\ LinksOf(RecipeIngredient', r) = LinksOf(RecipeIngredient, r)
                   /\ LinksOf(RecipeTag', r) = LinksOf(RecipeTag, r) ]_vars
    /\ [][ (last'.op = "create" /\ last'.user \notin Users) =>
             /\ last'.status \notin 200..299
             /\ UNCHANGED tables ]_vars

\* A create has been answered 201 and left a recipe with two ingredient
\* links and a tag link.
C14_Witness ==
    /\ last.op = "create" /\ last.status = 201
    /\ Cardinality(DOMAIN LinksOf(RecipeIngredient, last.pk)) = 2
    /\ LinksOf(RecipeTag, last.pk) # EmptyBag

\* The step just taken handled a recipe write whose ingredient list was
\* empty or held an amount below 1.
BadIngredients ==
    /\ RecipeWrite
    /\ last'.shape \cap {"ingredients=[]", "amount<1"} # {}

\* C15 as claimed: every create or update whose ingredient list is empty or
\* holds an amount below 1 is answered 400 and changes no stored recipe or
\* ingredient link.
C15_BadIngredientsAnswered400 ==
    [][ BadIngredients =>
          /\ last'.status = 400
          /\ UNCHANGED <<Recipe, RecipeIngredient>> ]_vars

\* C15, amended: such a request changes no table; it is answered 400 when it
\* gets as far as validation (every create, and an update of a stored recipe
\* by its author or by staff), 404 when the update names no stored recipe,
\* and 401 or 403 when the requester may not update the recipe.
C15_BadIngredientsRejected ==
    [][ BadIngredients =>
          /\ UNCHANGED tables
          /\ IF last'.op = "create" THEN last'.status = 400
             ELSE IF last'.pk \notin DOMAIN Recipe THEN last'.status = 404
             ELSE IF Recipe[last'.pk].author = last'.user \/ is_staff(last'.user)
             THEN last'.status = 400
             ELSE last'.status \in {401, 403} ]_vars

\* An update with an empty ingredient list has been answered 400 and the
\* recipe still has its links.
C15_Witness ==
    /\ last.op = "update" /\ last.status = 400
    /\ "ingredients=[]" \in last.shape
    /\ last.pk \in DOMAIN Recipe
    /\ LinksOf(RecipeIngredient, last.pk) # EmptyBag

\* C16 as claimed: a create or update whose tag list is empty is rejected
\* and changes no stored recipe or link.
C16_EmptyTagsRejected ==
    [][ (RecipeWrite /\ "tags=[]" \in last'.shape) =>
          /\ last'.status \notin 200..299
          /\ UNCHANGED <<Recipe, RecipeIngredient, RecipeTag>> ]_vars

\* C19 as claimed: whatever creates and updates have been handled, every
\* stored recipe has at least one ingredient link.
C19_RecipeHasIngredient ==
    \A r \in DOMAIN Recipe : LinksOf(RecipeIngredient, r) # EmptyBag

\* ----------------------------------------------------- recipe permissions
NextPermission == retrieve \/ update \/ destroy

SpecPermission == InitOwned /\ [][NextPermission]_vars

\* C13: a retrieve of a stored recipe is answered 200 whoever asks; a PUT,
\* PATCH or DELETE on a stored recipe gets past the permission check when
\* the requester is the recipe's author or staff, and otherwise is answered
\* 401 or 403 and leaves every table unchanged.
C13_OnlyAuthorOrStaffMutates ==
    /\ []((last.op = "retrieve" /\ last.pk \in DOMAIN Recipe) => last.status = 200)
    /\ [][ (last'.op \in {"update", "destroy"} /\ last'.pk \in DOMAIN Recipe) =>
             IF Recipe[last'.pk].author = last'.user \/ is_staff(last'.user)
             THEN last'.status \notin {401, 403}
             ELSE last'.status \in {401, 403} /\ UNCHANGED tables
         ]_vars

\* A registered user who is neither the author nor staff has been refused an
\* update, and the recipe is still stored.
C13_Witness ==
    /\ last.op = "update" /\ last.status = 403
    /\ last.pk \in DOMAIN Recipe
    /\ Recipe[last.pk].author # last.user /\ ~is_staff(last.user)

\* --------------------------------------------------- shopping-list export
NextCart == shopping_cart \/ ShoppingCartView \/ download_shopping_cart

SpecCart == InitCart /\ [][NextCart]_vars

\* The recipes in a user's cart.
CartOf(user) == {row[2] : row \in {x \in DOMAIN RecipeCart : x[1] = user}}

\* The amount recipe r lists of ingredient i, 0 if it does not list it.
AmountIn(r, i) ==
    LET rows == {x \in DOMAIN RecipeIngredient : x[1] = r /\ x[2] = i}
    IN IF rows = {} THEN 0 ELSE (CHOOSE x \in rows : TRUE)[3]

RECURSIVE Total(_, _)
Total(pairs, done) ==
    IF pairs = done THEN 0
    ELSE LET p == CHOOSE x \in pairs \ done : TRUE
         IN AmountIn(p[1], p[2]) + Total(pairs, done \cup {p})

\* The ingredients called `name` and measured in `unit`.
Named(name, unit) ==
    {i \in Ingredients : ingredient__name(i) = name
                           /\ ingredient__measurement_unit(i) = unit}

\* The shopping list the claim describes for a user's cart.
ExpectedList(user) ==
    LET listed == {i \in Ingredients :
                      \E r \in CartOf(user) : AmountIn(r, i) > 0}
        keys == {<<ingredient__name(i), ingredient__measurement_unit(i)>> :
                    i \in listed}
    IN {<<k[1], k[2], Total(CartOf(user) \X Named(k[1], k[2]), {})>> : k \in keys}

\* C9: a successful export holds exactly one line per (name, unit) found in
\* the recipes of the requester's cart, with the sum of those recipes'
\* amounts of it, other carts and recipes adding nothing; and no export
\* changes any table.
C9_ExportSumsCart ==
    /\ []((last.op = "download_shopping_cart" /\ last.status = 200) =>
              last.data = ExpectedList(last.user))
    /\ [][ last'.op = "download_shopping_cart" => UNCHANGED tables ]_vars

\* An export has summed one ingredient over two carted recipes while the
\* other user's cart holds a recipe as well.
C9_Witness ==
    /\ last.op = "download_shopping_cart" /\ last.status = 200
    /\ Cardinality(CartOf(last.user)) = 2
    /\ \E line \in last.data : line[3] = 2 * MaxAmount
    /\ \E u \in Users \ {last.user} : CartOf(u) # {}

\* C10: an export for an authenticated user fails with 400 and no list when
\* the user's cart holds no entry, and succeeds when it holds one.
C10_EmptyCartRefused ==
    (last.op = "download_shopping_cart" /\ last.user \in Users) =>
        IF CartOf(last.user) = {}
        THEN last.status = 400 /\ last.data = {}
        ELSE last.status = 200

\* An export has been refused for an empty cart while another user's cart
\* holds a recipe.
C10_Witness ==
    /\ last.op = "download_shopping_cart" /\ last.status = 400
    /\ CartOf(last.user) = {}
    /\ RecipeCart # EmptyBag

\* ------------------------------------------------- concurrent requests
NextConc == Begin \/ Finish

SpecConc == InitConc /\ [][NextConc]_vars

\* C1: however favorite, shopping_cart and subscribe requests of any users
\* interleave, Favorite and RecipeCart hold at most one row per (user,
\* recipe) and Subscriptions at most one row per (author, user).
C1_NoDuplicatePairs ==
    /\ \A row \in DOMAIN Favorite : Favorite[row] <= 1
    /\ \A row \in DOMAIN RecipeCart : RecipeCart[row] <= 1
    /\ \A row \in DOMAIN Subscriptions : Subscriptions[row] <= 1

\* Two requests to add the same pair both passed their existence check;
\* one has inserted its row and the other is about to insert.
C1_Witness ==
    \E w \in Workers :
        /\ inflight[w].op \in FavoriteOps /\ inflight[w].method = "POST"
        /\ BagIn(<<inflight[w].user, inflight[w].pk>>, Favorite)

\* ----------------------------------------------------------- recipe reads
NextRead == favorite \/ shopping_cart \/ retrieve

SpecRead == InitStocked /\ [][NextRead]_vars

\* C11: for every stored recipe and every requester, the rendered
\* is_favorited is true exactly when the requester is authenticated and the
\* Favorite row (requester, recipe) is stored, and is_in_shopping_cart exactly
\* when the requester is authenticated and the RecipeCart row is stored; the
\* same holds of the body a retrieve has just been answered with.
C11_FlagsFollowRows ==
    /\ \A user \in Requesters, recipe \in DOMAIN Recipe :
          /\ to_representation(user, recipe).is_favorited
                <=> (user # 0 /\ CopiesIn(<<user, recipe>>, Favorite) > 0)
          /\ to_representation(user, recipe).is_in_shopping_cart
                <=> (user # 0 /\ CopiesIn(<<user, recipe>>, RecipeCart) > 0)
    /\ (last.op = "retrieve" /\ last.status = 200) =>
          /\ last.data.is_favorited
                <=> (last.user # 0 /\ CopiesIn(<<last.user, last.pk>>, Favorite) > 0)
          /\ last.data.is_in_shopping_cart
                <=> (last.user # 0 /\ CopiesIn(<<last.user, last.pk>>, RecipeCart) > 0)

\* An anonymous retrieve of a recipe that users hold as a favorite and in a
\* cart has been answered with both flags false.
C11_Witness ==
    /\ last.op = "retrieve" /\ last.status = 200 /\ last.user = 0
    /\ ~last.data.is_favorited /\ ~last.data.is_in_shopping_cart
    /\ \E u \in Users : BagIn(<<u, last.pk>>, Favorite)
    /\ \E u \in Users : BagIn(<<u, last.pk>>, RecipeCart)

\* ---------------------------------------------- concurrent recipe updates
NextUpdateConc == update_clear \/ update_bulk_create

SpecUpdateConc == InitConc /\ [][NextUpdateConc]_vars

\* C18 as claimed: once the update requests that ran at the same time on a
\* recipe have all been answered, no (recipe, ingredient) link is stored
\* twice and the recipe's links are exactly the list one of the requests
\* submitted: never a mixture of two lists, never none.
C18_ConcurrentUpdatesSerialize ==
    (\A w \in Workers : inflight[w].op = "answered") =>
        /\ \A x, y \in DOMAIN RecipeIngredient :
              /\ RecipeIngredient[x] = 1
              /\ (x[1] = y[1] /\ x[2] = y[2]) => x = y
        /\ \A r \in {inflight[w].pk : w \in Workers} :
              \E w \in Workers :
                 /\ inflight[w].pk = r
                 /\ LinksOf(RecipeIngredient, r) =
                       BagOfSeq(create_ingredients(r, inflight[w].ingredients))

====
